---- MODULE Spec2Model ----
(***************************************************************************)
(* Model of vflib2/datasets.py: the record labeler (label_and_tag_ids),    *)
(* the coverage aggregation (get_parameter_distribution), the parameter    *)
(* selection (select_parameters) and the per-parameter capping of torsion  *)
(* records (cap_torsions_per_parameter).                                   *)
(*                                                                         *)
(* A dataset is the value of dataset.entries: a sequence (one element per  *)
(* key, in key order) of lists of record ids.  to_records() yields, for    *)
(* every entry of every key, the pair (record, molecule); the labels the   *)
(* force field assigns to the molecule are kept next to it.                *)
(***************************************************************************)
EXTENDS Integers, Sequences, FiniteSets, TLC

VARIABLES
    records,            \* record id -> [record, molecule, mol_labels]
    entries,            \* dataset.entries: <<list of record ids per key>>
    ring_torsions,      \* contents of the explicit_ring_torsions file
    cap_size,           \* argument of cap_torsions_per_parameter
    method,             \* argument of cap_torsions_per_parameter
    pc,                 \* the last call: "init", "label", "dist", "select", "cap"
    status,             \* "ok", or "error" when the call raised
    parameter_types,    \* argument parameter_types of the calls
    parameter_ids,      \* label_and_tag_ids: the returned set
    added,              \* label_and_tag_ids: the (type, indices) that reached line 94
    coverage,           \* get_parameter_distribution: the Counter
    parameter_records,  \* get_parameter_distribution: id -> list of (n_heavy, record id)
    records_to_keep,    \* cap_torsions_per_parameter: id -> tuple of record ids
    ids_to_keep,        \* cap_torsions_per_parameter: the flattened list
    selected_parameters,\* select_parameters: type -> list of smirks
    min_coverage,       \* argument of select_parameters
    prev_keep,          \* <<ids_to_keep>> of the preceding successful cap call, or <<>>
    source_entries      \* <<dataset.entries>> as the last cap call received them

vars == <<records, entries, ring_torsions, cap_size, method, pc, status,
          parameter_types, parameter_ids, added, coverage, parameter_records,
          records_to_keep, ids_to_keep, selected_parameters,
          min_coverage, prev_keep, source_entries>>

(***************************************************************************)
(* Bounds of the model.                                                    *)
(***************************************************************************)
MaxRecords == 3

(***************************************************************************)
(* Default arguments.                                                      *)
(***************************************************************************)
\* select_parameters: min_coverage
DefaultMinCoverage == 5

(***************************************************************************)
(* Python helpers.                                                         *)
(***************************************************************************)
Min(a, b) == IF a <= b THEN a ELSE b
Max(a, b) == IF a >= b THEN a ELSE b

ToSet(s) == {s[i] : i \in DOMAIN s}

\* seq[lo:hi] for 0 <= lo <= hi (positions counted from 0, hi excluded, clipped)
PySlice(s, lo, hi) == SubSeq(s, lo + 1, Min(hi, Len(s)))

\* a variant that stops one element late
PySliceTo_OneMore(s, n) ==
    IF n < 0 THEN SubSeq(s, 1, Max(Len(s) + n + 1, 0))
    ELSE SubSeq(s, 1, Min(n + 1, Len(s)))

\* seq[:n]; a negative n counts from the end
PySliceTo(s, n) ==
    IF n < 0 THEN SubSeq(s, 1, Max(Len(s) + n, 0))
    ELSE SubSeq(s, 1, Min(n, Len(s)))

RECURSIVE Concat(_)
Concat(ss) == IF ss = <<>> THEN <<>> ELSE Head(ss) \o Concat(Tail(ss))

RECURSIVE SelectSeqIn(_, _)
\* [x for x in s if x in keep]
SelectSeqIn(s, keep) ==
    IF s = <<>> THEN <<>>
    ELSE IF Head(s) \in keep THEN <<Head(s)>> \o SelectSeqIn(Tail(s), keep)
    ELSE SelectSeqIn(Tail(s), keep)

RECURSIVE Orderings(_)
\* all the orderings of the finite set S, as sequences
Orderings(S) ==
    IF S = {} THEN {<<>>}
    ELSE UNION {{<<x>> \o o : o \in Orderings(S \ {x})} : x \in S}

(***************************************************************************)
(* safe_ring_bond and check_torsion_is_in_ring.  mol.bonds maps the        *)
(* bonded pairs {i, j} to the bond's is_in_ring(); get_bond_between raises *)
(* NotBondedError for a pair outside its domain.                           *)
(***************************************************************************)
\* a variant whose handler of NotBondedError returns True
SafeRingBond_MissingIsRing(mol, i, j) ==
    IF {i, j} \in DOMAIN mol.bonds THEN mol.bonds[{i, j}] ELSE TRUE

SafeRingBond(mol, i, j) ==
    IF {i, j} \in DOMAIN mol.bonds THEN mol.bonds[{i, j}] ELSE FALSE

\* `i, j, k, m = indices` raises ValueError unless indices has four elements
UnpackFails(indices) == Len(indices) # 4

\* a variant that forgets the bond K-L
CheckTorsionIsInRing_TwoBonds(mol, indices) ==
    /\ SafeRingBond(mol, indices[1], indices[2])
    /\ SafeRingBond(mol, indices[2], indices[3])

CheckTorsionIsInRing(mol, indices) ==
    /\ SafeRingBond(mol, indices[1], indices[2])
    /\ SafeRingBond(mol, indices[2], indices[3])
    /\ SafeRingBond(mol, indices[3], indices[4])

(***************************************************************************)
(* label_and_tag_ids.                                                      *)
(***************************************************************************)
IsTorsiondrive(record) == record.kind = "TorsiondriveRecord"

\* a variant that compares the centres as ordered pairs
CenterMismatch_Ordered(record, indices) ==
    PySlice(indices, 1, 3) # PySlice(record.dihedrals[1], 1, 3)

\* set(indices[1:3]) != set(record_atoms[1:3]), record_atoms = dihedrals[0]
CenterMismatch(record, indices) ==
    ToSet(PySlice(indices, 1, 3)) # ToSet(PySlice(record.dihedrals[1], 1, 3))

\* one iteration of the inner loop: "continue", "raise" or "add"
SiteOutcome(record, molecule, indices, pid, ring) ==
    IF IsTorsiondrive(record)
    THEN IF CenterMismatch(record, indices) THEN "continue"
         ELSE IF pid \notin ring
              THEN IF UnpackFails(indices) THEN "raise"
                   ELSE IF CheckTorsionIsInRing(molecule, indices) THEN "continue"
                   ELSE "add"
              ELSE "add"
    ELSE "add"

RECURSIVE CountHeavy(_)
\* sum(1 for atom in molecule.atoms if atom.atomic_number != 1)
CountHeavy(atoms) ==
    IF atoms = <<>> THEN 0
    ELSE (IF Head(atoms) # 1 THEN 1 ELSE 0) + CountHeavy(Tail(atoms))

\* the (parameter_type, indices) pairs the loops visit
Sites(rm, types) ==
    UNION {{<<t, ix>> : ix \in DOMAIN rm.mol_labels[t]} : t \in ToSet(types)}

Outcome(rm, ring, site) ==
    SiteOutcome(rm.record, rm.molecule, site[2], rm.mol_labels[site[1]][site[2]], ring)

\* a variant that keeps one tuple per site, as a list would
LabelAndTagIds_PerSite(rm, types, ring) ==
    LET sites == Sites(rm, types)
        kept  == {s \in sites : Outcome(rm, ring, s) = "add"}
    IN  IF \E s \in sites : Outcome(rm, ring, s) = "raise"
        THEN [status |-> "error", parameter_ids |-> {}, added |-> {}]
        ELSE [status |-> "ok",
              parameter_ids |->
                  {<<rm.mol_labels[s[1]][s[2]], rm.record.id,
                     CountHeavy(rm.molecule.atoms), s>> : s \in kept},
              added |-> kept]

LabelAndTagIds(rm, types, ring) ==
    LET sites == Sites(rm, types)
        kept  == {s \in sites : Outcome(rm, ring, s) = "add"}
    IN  IF \E s \in sites : Outcome(rm, ring, s) = "raise"
        THEN [status |-> "error", parameter_ids |-> {}, added |-> {}]
        ELSE [status |-> "ok",
              parameter_ids |->
                  {<<rm.mol_labels[s[1]][s[2]], rm.record.id,
                     CountHeavy(rm.molecule.atoms)>> : s \in kept},
              added |-> kept]

(***************************************************************************)
(* get_parameter_distribution.  ids is what to_records() yields, in order. *)
(***************************************************************************)
\* dataset.to_records(): every entry of every key, in key order
ToRecords(ents) == Concat(ents)

\* a set of at most one element per record and parameter id, as a list
SetToSeq(S) == CHOOSE f \in Orderings(S) : TRUE

\* a variant that assigns 1 where the code adds 1
AddRecord_Assign(acc, tuples) ==
    [coverage |->
        [p \in DOMAIN acc.coverage |->
            IF \E t \in tuples : t[1] = p THEN 1 ELSE acc.coverage[p]],
     parameter_records |->
        [p \in DOMAIN acc.parameter_records |->
            acc.parameter_records[p]
                \o SetToSeq({<<t[3], t[2]>> : t \in {u \in tuples : u[1] = p}})]]

\* a variant that assigns the pair as the entry where the code appends it
AddRecord_Overwrite(acc, tuples) ==
    [coverage |->
        [p \in DOMAIN acc.coverage |->
            acc.coverage[p] + Cardinality({t \in tuples : t[1] = p})],
     parameter_records |->
        [p \in DOMAIN acc.parameter_records |->
            IF \E t \in tuples : t[1] = p
            THEN SetToSeq({<<t[3], t[2]>> : t \in {u \in tuples : u[1] = p}})
            ELSE acc.parameter_records[p]]]

\* a variant that appends (record_id, n_heavy_atoms)
AddRecord_Swapped(acc, tuples) ==
    [coverage |->
        [p \in DOMAIN acc.coverage |->
            acc.coverage[p] + Cardinality({t \in tuples : t[1] = p})],
     parameter_records |->
        [p \in DOMAIN acc.parameter_records |->
            acc.parameter_records[p]
                \o SetToSeq({<<t[2], t[3]>> : t \in {u \in tuples : u[1] = p}})]]

\* the loop of lines 120-122 over the set one record returned
AddRecord(acc, tuples) ==
    [coverage |->
        [p \in DOMAIN acc.coverage |->
            acc.coverage[p] + Cardinality({t \in tuples : t[1] = p})],
     parameter_records |->
        [p \in DOMAIN acc.parameter_records |->
            acc.parameter_records[p]
                \o SetToSeq({<<t[3], t[2]>> : t \in {u \in tuples : u[1] = p}})]]

RECURSIVE Aggregate(_, _, _)
Aggregate(labs, n, pids) ==
    IF n = 0
    THEN [coverage |-> [p \in pids |-> 0], parameter_records |-> [p \in pids |-> <<>>]]
    ELSE CHOOSE r \in {AddRecord(acc, labs[n].parameter_ids) :
                          acc \in {Aggregate(labs, n - 1, pids)}} : TRUE

RECURSIVE LabelUpTo(_, _, _, _, _)
\* what label_and_tag_ids returns for the first n records yielded
LabelUpTo(recs, ids, types, ring, n) ==
    IF n = 0 THEN <<>>
    ELSE Append(LabelUpTo(recs, ids, types, ring, n - 1),
                LabelAndTagIds(recs[ids[n]], types, ring))

\* a Counter and a defaultdict hold only the keys that were touched
Touched(f, pids) == [p \in pids |-> f[p]]

\* the loop of lines 118-122 over the sets labs the records returned
Distribute(labs) ==
    LET pids == {t[1] : t \in UNION {labs[i].parameter_ids : i \in 1..Len(labs)}}
    IN  IF \E i \in 1..Len(labs) : labs[i].status = "error"
        THEN [status |-> "error", coverage |-> <<>>, parameter_records |-> <<>>]
        ELSE CHOOSE r \in {[status |-> "ok",
                            coverage |-> Touched(acc.coverage, pids),
                            parameter_records |-> Touched(acc.parameter_records, pids)] :
                              acc \in {Aggregate(labs, Len(labs), pids)}} : TRUE

GetParameterDistribution(recs, ids, types, ring) ==
    CHOOSE r \in {Distribute(labs) :
                     labs \in {LabelUpTo(recs, ids, types, ring, Len(ids))}} : TRUE

RECURSIVE KeyOrdersUpTo(_, _)
\* the orders in which the keys can have entered the Counter: records in the
\* order yielded, the tuples of one record in the iteration order of a set
KeyOrdersUpTo(labs, n) ==
    IF n = 0 THEN {<<>>}
    ELSE UNION {{o \o ext :
                    ext \in Orderings({t[1] : t \in labs[n].parameter_ids} \ ToSet(o))} :
                        o \in KeyOrdersUpTo(labs, n - 1)}

KeyOrders(recs, ids, types, ring) ==
    UNION {KeyOrdersUpTo(labs, Len(labs)) :
              labs \in {LabelUpTo(recs, ids, types, ring, Len(ids))}}

(***************************************************************************)
(* Inputs: molecules, the labels the force field gives them, and records.  *)
(***************************************************************************)
\* the torsion groups a torsion drive declares
D1 == <<1, 2, 3, 6>>
D2 == <<1, 4, 5, 6>>

\* torsion sites: centre (2,3), the same centre reversed, and centre (4,5)
\* with the outer atoms of the first
SiteA == <<1, 2, 3, 6>>
SiteB == <<6, 3, 2, 1>>
SiteC == <<1, 4, 5, 6>>
TorsionSites == {SiteA, SiteB, SiteC}
TorsionPids == {"t1", "t2"}

ChainA == {{1, 2}, {2, 3}, {3, 6}}
ChainC == {{1, 4}, {4, 5}, {5, 6}}

\* atomic numbers of atoms 0..6 (hydrogen is 1)
AtomsLight == <<1, 1, 6, 6, 6, 6, 1>>
AtomsMid == <<1, 6, 6, 6, 6, 8, 1>>
AtomsHeavy == <<6, 6, 6, 6, 7, 8, 6>>
AtomLists == {AtomsLight, AtomsHeavy}

\* bonds of chain A as chosen ("none", "bond" or "ring"), chain C all in or
\* all out of a ring
MkBonds(st, cring) ==
    [p \in {q \in ChainA : st[q] # "none"} \cup ChainC |->
        IF p \in ChainC THEN cring ELSE st[p] = "ring"]

BondLabels == (<<2, 3>> :> "b1") @@ (<<3, 6>> :> "b1")
AngleLabels == (<<1, 2, 3>> :> "a1") @@ (<<2, 3, 6>> :> "a1")

TorsionLabelings == UNION {[S -> TorsionPids] : S \in SUBSET TorsionSites}

MkEntry(id, kind, dihedrals, atoms, bonds, torsions) ==
    [record     |-> [id |-> id, kind |-> kind, dihedrals |-> dihedrals],
     molecule   |-> [atoms |-> atoms, bonds |-> bonds],
     mol_labels |-> [ProperTorsions |-> torsions, Bonds |-> BondLabels,
                     Angles |-> AngleLabels]]

RecordKinds ==
    {<<"OptimizationRecord", <<>>>>, <<"TorsiondriveRecord", <<D1>>>>,
     <<"TorsiondriveRecord", <<D1, D2>>>>, <<"TorsiondriveRecord", <<D2, D1>>>>}

ParameterTypeLists == {<<"ProperTorsions">>, <<"Bonds">>, <<"Bonds", "Angles">>}

Methods == {"pick_random", "pick_heavy", "pick_light"}

(***************************************************************************)
(* The labeler on one record: every record kind, bond pattern, labeling    *)
(* and exception list of the input sets.                                   *)
(***************************************************************************)
NoResults ==
    /\ pc = "init"
    /\ status = "ok"
    /\ parameter_ids = {}
    /\ added = {}
    /\ coverage = <<>>
    /\ parameter_records = <<>>
    /\ records_to_keep = <<>>
    /\ ids_to_keep = <<>>
    /\ selected_parameters = <<>>
    /\ prev_keep = <<>>
    /\ source_entries = <<>>

InitLabel ==
    /\ \E kind \in RecordKinds, atoms \in AtomLists,
          st \in [ChainA -> {"none", "bond", "ring"}], cring \in BOOLEAN,
          tl \in TorsionLabelings :
            records = (1 :> MkEntry(1, kind[1], kind[2], atoms, MkBonds(st, cring), tl))
    /\ entries = <<<<1>>>>
    /\ ring_torsions \in {{}, {"t1"}}
    /\ cap_size = 1
    /\ method = "pick_heavy"
    /\ parameter_types = <<>>
    /\ min_coverage = DefaultMinCoverage
    /\ NoResults

\* label_and_tag_ids on the record of the dataset
Label(types) ==
    /\ pc = "init"
    /\ LET r == LabelAndTagIds(records[1], types, ring_torsions)
       IN  /\ status' = r.status
           /\ parameter_ids' = r.parameter_ids
           /\ added' = r.added
    /\ pc' = "label"
    /\ parameter_types' = types
    /\ UNCHANGED <<records, entries, ring_torsions, cap_size, method, coverage,
                   parameter_records, records_to_keep, ids_to_keep,
                   selected_parameters, min_coverage, prev_keep, source_entries>>

NextLabel == \E types \in ParameterTypeLists : Label(types)

SpecLabel == InitLabel /\ [][NextLabel]_vars

(***************************************************************************)
(* cap_torsions_per_parameter.                                             *)
(***************************************************************************)
\* x goes behind the elements that sort before it or equal to it
InsertSorted(x, s, reverse) ==
    LET n == Cardinality({i \in 1..Len(s) :
                 IF reverse THEN s[i][1] >= x[1] ELSE s[i][1] <= x[1]})
    IN  SubSeq(s, 1, n) \o <<x>> \o SubSeq(s, n + 1, Len(s))

RECURSIVE SortedUpTo(_, _, _)
SortedUpTo(s, n, reverse) ==
    IF n = 0 THEN <<>>
    ELSE InsertSorted(s[n], SortedUpTo(s, n - 1, reverse), reverse)

\* a variant that sorts ascending and reverses the result, which turns the
\* order of equal elements around
Sorted_ThenReversed(s, reverse) ==
    LET asc == SortedUpTo(s, Len(s), FALSE)
    IN  IF reverse THEN [i \in 1..Len(asc) |-> asc[Len(asc) + 1 - i]] ELSE asc

\* sorted(s, key=lambda x: x[0], reverse=reverse): stable in both directions
Sorted(s, reverse) == SortedUpTo(s, Len(s), reverse)

\* a variant that takes the first entries without sorting
PickHeavy_Unsorted(pr, cap) == PySliceTo(pr, cap)

PickHeavy(pr, cap) == PySliceTo(Sorted(pr, TRUE), cap)

PickLight(pr, cap) == PySliceTo(Sorted(pr, FALSE), cap)

\* random.sample(pop, k): raises ValueError (no outcome) when k is negative
\* or larger than the population, and else returns the elements at k distinct
\* positions of pop.  The sample is listed by position: the order within a
\* sample only permutes records_to_keep[parameter_id], which lines 178-191
\* read through `in` alone.
RandomSample(pop, k) ==
    IF k < 0 \/ k > Len(pop) THEN {}
    ELSE {[i \in 1..k |-> pop[f[i]]] :
             f \in {g \in [1..k -> 1..Len(pop)] :
                       \A i, j \in 1..k : i < j => g[i] < g[j]}}

\* the values n_atom_records can take for one parameter id (lines 147-165)
NAtomRecords(pr, cov, cap, m) ==
    IF cov <= cap THEN {pr}
    ELSE IF m = "pick_heavy" THEN {PickHeavy(pr, cap)}
    ELSE IF m = "pick_light" THEN {PickLight(pr, cap)}
    ELSE RandomSample(pr, cap)

\* `_, records = zip(*n_atom_records)` raises ValueError on an empty list
UnzipRecords(nar) == [i \in 1..Len(nar) |-> nar[i][2]]

\* the loop of lines 146-168 raises for this parameter id
LoopRaises(pr, cov, cap, m) ==
    \/ NAtomRecords(pr, cov, cap, m) = {}
    \/ <<>> \in NAtomRecords(pr, cov, cap, m)

\* a variant that leaves out the records of the last key
IdsToKeep_DropLast(keep, order) ==
    Concat([i \in 1..(Len(order) - 1) |-> keep[order[i]]])

\* lines 178-182, the keys of records_to_keep in insertion order
IdsToKeep(keep, order) == Concat([i \in 1..Len(order) |-> keep[order[i]]])

\* a variant that lists the ids to keep that are in the list of the key
FilterEntries_ByKeepOrder(ents, ids) ==
    [ents EXCEPT ![1] = SelectSeqIn(ids, ToSet(ents[1]))]

\* lines 186-191: only the list of the first key is filtered
FilterEntries(ents, ids) ==
    [ents EXCEPT ![1] = SelectSeqIn(ents[1], ToSet(ids))]

CapFails(dist, ents, cap, m) ==
    \/ dist.status = "error"
    \/ \E p \in DOMAIN dist.coverage :
          LoopRaises(dist.parameter_records[p], dist.coverage[p], cap, m)
    \/ Len(ents) = 0

RECURSIVE LoopChoices(_, _, _, _)
\* the values the loop of lines 146-165 can give n_atom_records, per key
LoopChoices(dist, pids, cap, m) ==
    IF pids = {} THEN {<<>>}
    ELSE LET p == CHOOSE q \in pids : TRUE
         IN  {(p :> v) @@ f :
                 v \in NAtomRecords(dist.parameter_records[p], dist.coverage[p], cap, m),
                 f \in LoopChoices(dist, pids \ {p}, cap, m)}

\* the call failed: nothing is returned and the dataset is as it was
CapRaised(dist) ==
    /\ status' = "error"
    /\ coverage' = dist.coverage
    /\ parameter_records' = dist.parameter_records
    /\ records_to_keep' = <<>>
    /\ ids_to_keep' = <<>>
    /\ prev_keep' = <<>>
    /\ source_entries' = <<entries>>
    /\ UNCHANGED entries

\* the call returned, with the keys inserted in `order` and n_atom_records
\* taking the values nar
CapReturned(dist, order, nar) ==
    LET keep == [p \in DOMAIN dist.coverage |-> UnzipRecords(nar[p])]
        ids  == IdsToKeep(keep, order)
    IN  /\ status' = "ok"
        /\ coverage' = dist.coverage
        /\ parameter_records' = dist.parameter_records
        /\ records_to_keep' = keep
        /\ ids_to_keep' = ids
        /\ entries' = FilterEntries(entries, ids)
        /\ prev_keep' = IF pc = "cap" /\ status = "ok" THEN <<ids_to_keep>> ELSE <<>>
        /\ source_entries' = <<entries>>

CapTorsionsPerParameter ==
    /\ pc' = "cap"
    /\ \E dist \in {GetParameterDistribution(records, ToRecords(entries),
                        <<"ProperTorsions">>, ring_torsions)} :
          IF CapFails(dist, entries, cap_size, method)
          THEN CapRaised(dist)
          ELSE \E order \in KeyOrders(records, ToRecords(entries),
                                <<"ProperTorsions">>, ring_torsions),
                  nar \in LoopChoices(dist, DOMAIN dist.coverage, cap_size, method) :
                     CapReturned(dist, order, nar)
    /\ UNCHANGED <<records, ring_torsions, cap_size, method, parameter_types,
                   parameter_ids, added, selected_parameters, min_coverage>>

(***************************************************************************)
(* Torsion-drive datasets: up to MaxRecords records, each one of the       *)
(* molecules below scanned about (2,3), under one key or under two.        *)
(***************************************************************************)
PlainChain == MkBonds([p \in ChainA |-> "bond"], TRUE)
RingChain == MkBonds([p \in ChainA |-> "ring"], TRUE)

\* the molecules of the datasets (torsion labels, bonds, atoms): one site on
\* a small molecule, two sites with the same id on a large one, two sites
\* with different ids, and a site that lies in a ring
ScanMolecules ==
    {<<(SiteA :> "t1"), PlainChain, AtomsLight>>,
     <<(SiteA :> "t1") @@ (SiteB :> "t1"), PlainChain, AtomsHeavy>>,
     <<(SiteA :> "t1") @@ (SiteB :> "t2"), PlainChain, AtomsMid>>,
     <<(SiteA :> "t2"), RingChain, AtomsLight>>}

MkScan(id, m) == MkEntry(id, "TorsiondriveRecord", <<D1>>, m[3], m[2], m[1])

\* the record ids 1..n under two keys, the last one under the second
TwoKeys(n) ==
    IF n = 0 THEN <<<<>>, <<>>>> ELSE <<[i \in 1..(n - 1) |-> i], <<n>>>>

\* the record ids 1..n under one key or under two, or no key at all
EntryLayouts(n) ==
    IF n = 0 THEN {<<>>, <<<<>>>>} ELSE {<<[i \in 1..n |-> i]>>, TwoKeys(n)}

CapSizes == (-1)..(MaxRecords - 1)

Init ==
    /\ \E n \in 0..MaxRecords :
          /\ \E ms \in [1..n -> ScanMolecules] :
                records = [i \in 1..n |-> MkScan(i, ms[i])]
          /\ entries \in EntryLayouts(n)
    /\ ring_torsions = {}
    /\ cap_size \in CapSizes
    /\ method \in Methods
    /\ parameter_types = <<"ProperTorsions">>
    /\ min_coverage = DefaultMinCoverage
    /\ NoResults

Next == CapTorsionsPerParameter

Spec == Init /\ [][Next]_vars

(***************************************************************************)
(* select_parameters.  The force field has a handler per parameter type;   *)
(* get_parameter({"id": id}) returns the rules of the handler with that    *)
(* id, as a list.                                                          *)
(***************************************************************************)
Handlers ==
    [ProperTorsions |-> {"t1", "t2"}, Bonds |-> {"b1", "b2"}, Angles |-> {"a1"}]

Smirks ==
    [t1 |-> "[*:1]-[#6:2]-[#6:3]-[*:4]", t2 |-> "[*:1]-[#6:2]@[#6:3]-[*:4]",
     b1 |-> "[#6:1]-[#6:2]", b2 |-> "[#6:1]-[*:2]", a1 |-> "[*:1]-[#6:2]-[*:3]"]

AllPids == UNION {Handlers[t] : t \in DOMAIN Handlers}

GetParameter(type, pid) == IF pid \in Handlers[type] THEN <<Smirks[pid]>> ELSE <<>>

\* a variant that also drops a count equal to min_coverage
BelowCoverage_OrEqual(count, minc) == count <= minc

\* line 218
BelowCoverage(count, minc) == count < minc

RECURSIVE SelectedUpTo(_, _, _, _, _)
\* the loop of lines 217-223 over the first n keys of coverage
SelectedUpTo(type, cov, order, minc, n) ==
    IF n = 0 THEN <<>>
    ELSE LET rest == SelectedUpTo(type, cov, order, minc, n - 1)
             parameters == GetParameter(type, order[n])
         IN  IF BelowCoverage(cov[order[n]], minc) THEN rest
             ELSE IF Len(parameters) = 0 THEN rest
             ELSE Append(rest, parameters[1])

Selected(type, cov, order, minc) == SelectedUpTo(type, cov, order, minc, Len(order))

\* a defaultdict(list) has the keys that were appended to
SelectedParameters(types, cov, order, minc) ==
    [t \in {u \in ToSet(types) : Selected(u, cov, order, minc) # <<>>} |->
        Selected(t, cov, order, minc)]

\* the lists select_parameters can return: one per order in which the keys
\* can have entered the Counter
SelectOutcomes(types, cov, minc) ==
    {SelectedParameters(types, cov, order, minc) :
        order \in KeyOrders(records, ToRecords(entries), types, ring_torsions)}

SelectParameters(minc) ==
    /\ pc' = "select"
    /\ min_coverage' = minc
    /\ \E dist \in {GetParameterDistribution(records, ToRecords(entries),
                        parameter_types, ring_torsions)} :
          IF dist.status = "error"
          THEN /\ status' = "error"
               /\ coverage' = <<>>
               /\ selected_parameters' = <<>>
          ELSE /\ status' = "ok"
               /\ coverage' = dist.coverage
               /\ selected_parameters' \in
                     SelectOutcomes(parameter_types, dist.coverage, minc)
    /\ parameter_records' = <<>>
    /\ UNCHANGED <<records, entries, ring_torsions, cap_size, method, parameter_types,
                   parameter_ids, added, records_to_keep, ids_to_keep, prev_keep,
                   source_entries>>

\* get_parameter_distribution on the dataset
Distribution ==
    /\ pc' = "dist"
    /\ \E dist \in {GetParameterDistribution(records, ToRecords(entries),
                        parameter_types, ring_torsions)} :
          /\ status' = dist.status
          /\ coverage' = dist.coverage
          /\ parameter_records' = dist.parameter_records
    /\ selected_parameters' = <<>>
    /\ min_coverage' = DefaultMinCoverage
    /\ UNCHANGED <<records, entries, ring_torsions, cap_size, method, parameter_types,
                   parameter_ids, added, records_to_keep, ids_to_keep, prev_keep,
                   source_entries>>

(***************************************************************************)
(* Datasets for the selection: optimization records or torsion drives of   *)
(* the molecules above.                                                    *)
(***************************************************************************)
MkOpt(id, m) == MkEntry(id, "OptimizationRecord", <<>>, m[3], m[2], m[1])

SelectTypeLists ==
    {<<"ProperTorsions">>, <<"Bonds", "Angles">>, <<"ProperTorsions", "Bonds">>}

MinCoverages == 1..(MaxRecords + 1)

InitSelect ==
    /\ \E n \in 0..MaxRecords :
          /\ \E ms \in [1..n -> ScanMolecules], scan \in BOOLEAN :
                records = [i \in 1..n |->
                              IF scan THEN MkScan(i, ms[i]) ELSE MkOpt(i, ms[i])]
          /\ entries = TwoKeys(n)
    /\ ring_torsions \in {{}, {"t2"}}
    /\ cap_size = 1
    /\ method = "pick_heavy"
    /\ parameter_types \in SelectTypeLists
    /\ min_coverage = DefaultMinCoverage
    /\ NoResults

NextSelect == Distribution \/ \E minc \in MinCoverages : SelectParameters(minc)

SpecSelect == InitSelect /\ [][NextSelect]_vars

(***************************************************************************)
(* Properties of capping (Spec).                                           *)
(***************************************************************************)
Capped == pc = "cap" /\ status = "ok"

Deterministic == method \in {"pick_heavy", "pick_light"}

\* the call at hand is the first one on the dataset
FirstCall == prev_keep = <<>>

Counts(nar) == [i \in 1..Len(nar) |-> nar[i][1]]

\* C1: with a positive cap_size the call returns, and for every identifier of
\* the coverage map the records retained for it are min(coverage, cap_size)
\* distinct records of its index entry: all of them when coverage <= cap_size.
C1_CapRespected ==
    (pc = "cap" /\ cap_size > 0 /\ Len(entries) > 0) =>
        /\ status = "ok"
        /\ DOMAIN records_to_keep = DOMAIN coverage
        /\ \A p \in DOMAIN coverage :
              /\ Len(records_to_keep[p]) = Min(coverage[p], cap_size)
              /\ Cardinality(ToSet(records_to_keep[p])) = Len(records_to_keep[p])
              /\ ToSet(records_to_keep[p]) \subseteq ToSet(UnzipRecords(parameter_records[p]))
              /\ coverage[p] <= cap_size =>
                    ToSet(records_to_keep[p]) = ToSet(UnzipRecords(parameter_records[p]))

\* pick_random with cap_size 2: three records support t1 and two are kept,
\* one supports t2 and is kept
C1_Witness ==
    /\ Capped /\ FirstCall
    /\ method = "pick_random" /\ cap_size = 2
    /\ DOMAIN coverage = {"t1", "t2"}
    /\ coverage["t1"] = 3 /\ Len(records_to_keep["t1"]) = 2
    /\ coverage["t2"] = 1 /\ Len(records_to_keep["t2"]) = 1

\* the positions of the index entry of p whose record is retained for p
KeptPositions(p) ==
    {i \in 1..Len(parameter_records[p]) :
        parameter_records[p][i][2] \in ToSet(records_to_keep[p])}

\* the end-to-end scenario: seven records of t1 with these counts
Scenario == <<<<3, 1>>, <<5, 2>>, <<5, 3>>, <<7, 4>>, <<9, 5>>, <<9, 6>>, <<12, 7>>>>

\* C2: when coverage exceeds cap_size, pick_heavy retains the cap_size entries
\* of largest heavy-atom count and pick_light those of smallest count; of
\* entries with the same count the earlier ones in the index are retained.
\* Counts [3,5,5,7,9,9,12] with cap_size 3 give [12,9,9] and [3,5,5].
C2_HeavyLight ==
    /\ (Capped /\ Deterministic /\ cap_size > 0) =>
          \A p \in DOMAIN coverage :
              coverage[p] > cap_size =>
                /\ Cardinality(KeptPositions(p)) = cap_size
                /\ \A i \in KeptPositions(p) :
                      \A j \in (1..Len(parameter_records[p])) \ KeptPositions(p) :
                          LET ci == parameter_records[p][i][1]
                              cj == parameter_records[p][j][1]
                          IN  \/ (IF method = "pick_heavy" THEN cj < ci ELSE cj > ci)
                              \/ (cj = ci /\ i < j)
    /\ Counts(PickHeavy(Scenario, 3)) = <<12, 9, 9>>
    /\ UnzipRecords(PickHeavy(Scenario, 3)) = <<7, 5, 6>>
    /\ Counts(PickLight(Scenario, 3)) = <<3, 5, 5>>
    /\ UnzipRecords(PickLight(Scenario, 3)) = <<1, 2, 3>>

\* pick_heavy with cap_size 1 over three records of t1, the last two equally
\* heavy: the first of the two is retained
C2_Witness ==
    /\ Capped /\ FirstCall
    /\ method = "pick_heavy" /\ cap_size = 1
    /\ "t1" \in DOMAIN coverage
    /\ Counts(parameter_records["t1"]) = <<4, 7, 7>>
    /\ records_to_keep["t1"] = <<2>>

\* C3: capping the output of a capping again, with the same positive cap_size
\* and the same method pick_heavy or pick_light, retains the same set of
\* records and leaves the dataset as the first application left it.
C3_Idempotent ==
    (Capped /\ ~FirstCall /\ Deterministic /\ cap_size > 0) =>
        /\ ToSet(ids_to_keep) = ToSet(prev_keep[1])
        /\ entries = source_entries[1]

\* a second application in which t1 is still over the cap, because a record
\* retained for t2 supports t1 as well
C3_Witness ==
    /\ Capped /\ ~FirstCall
    /\ method = "pick_heavy" /\ cap_size = 1
    /\ DOMAIN coverage = {"t1", "t2"}
    /\ coverage["t1"] = 2
    /\ Cardinality(ToSet(ids_to_keep)) = 2
    /\ Len(ToRecords(entries)) < Len(records)

\* C4: the returned dataset holds exactly the records whose id is in the
\* retained-record set, each once.
C4_ExactlyRetained ==
    (Capped /\ cap_size > 0) =>
        /\ ToSet(ToRecords(entries)) = ToSet(ids_to_keep)
        /\ Cardinality(ToSet(ToRecords(entries))) = Len(ToRecords(entries))

\* what holds of the code: the list of the first key is the source list
\* filtered by the retained set, and the lists of the other keys are as
\* they were
C4_FirstKeyFiltered ==
    Capped =>
        /\ entries[1] = SelectSeq(source_entries[1][1], LAMBDA r : r \in ToSet(ids_to_keep))
        /\ \A k \in 2..Len(entries) : entries[k] = source_entries[1][k]

\* the n_atom_records of every key for the records yielded in the order ids
DetKeep(ids) ==
    LET dist == GetParameterDistribution(records, ids, <<"ProperTorsions">>, ring_torsions)
    IN  [p \in DOMAIN dist.coverage |->
            CHOOSE v \in NAtomRecords(dist.parameter_records[p], dist.coverage[p],
                                      cap_size, method) : TRUE]

RetainedSet(keep) == UNION {ToSet(UnzipRecords(keep[p])) : p \in DOMAIN keep}

SourceOrders == Orderings(ToSet(ToRecords(source_entries[1])))

\* the entries of the index of p that were retained, in index order
KeptEntries(p) ==
    SelectSeq(parameter_records[p], LAMBDA e : e[2] \in ToSet(records_to_keep[p]))

\* no two entries of an identifier have the same heavy-atom count
NoTies ==
    \A p \in DOMAIN parameter_records :
        \A i, j \in 1..Len(parameter_records[p]) :
            i # j => parameter_records[p][i][1] # parameter_records[p][j][1]

\* C8 as claimed: whatever the order in which the dataset yields its records,
\* pick_heavy and pick_light retain the same set of record ids.
C8_OrderIndependent ==
    (Capped /\ FirstCall /\ Deterministic /\ cap_size > 0) =>
        \A ids \in SourceOrders :
            RetainedSet(DetKeep(ids)) = ToSet(ids_to_keep)

\* C8 as amended: whatever the order, pick_heavy and pick_light retain for
\* every identifier the same heavy-atom counts, as many times each; and the
\* same set of record ids when no two entries of an identifier have the same
\* heavy-atom count.
C8_OrderIndependentCounts ==
    (Capped /\ FirstCall /\ Deterministic /\ cap_size > 0) =>
        \A ids \in SourceOrders :
            \A keep \in {DetKeep(ids)} :
                /\ DOMAIN keep = DOMAIN coverage
                /\ \A p \in DOMAIN coverage :
                      Counts(Sorted(keep[p], FALSE)) = Counts(Sorted(KeptEntries(p), FALSE))
                /\ NoTies => RetainedSet(keep) = ToSet(ids_to_keep)

\* three records of t1 with different counts, two of them retained
C8_Witness ==
    /\ Capped /\ FirstCall /\ Deterministic
    /\ cap_size = 2
    /\ "t1" \in DOMAIN coverage /\ coverage["t1"] = 3
    /\ NoTies
    /\ Cardinality(ToSet(ids_to_keep)) = 2

\* C9: with cap_size <= 0 and at least one covered identifier the call fails,
\* whatever the method.
C9_NonPositiveCapFails ==
    (pc = "cap" /\ cap_size <= 0 /\ DOMAIN coverage # {}) => status = "error"

(***************************************************************************)
(* Properties of the labeler (SpecLabel).                                  *)
(***************************************************************************)
TheRecord == records[1].record
TheMolecule == records[1].molecule
TheTorsions == records[1].mol_labels.ProperTorsions
TheHeavy == CountHeavy(TheMolecule.atoms)

LabelledTorsions ==
    /\ pc = "label"
    /\ status = "ok"
    /\ "ProperTorsions" \in ToSet(parameter_types)

\* the bonds (i,j), (j,k), (k,l) all exist and are all flagged as ring bonds
AllRingBonds(ix) ==
    \A p \in {{ix[1], ix[2]}, {ix[2], ix[3]}, {ix[3], ix[4]}} :
        p \in DOMAIN TheMolecule.bonds /\ TheMolecule.bonds[p]

\* the centre of the site is, as an unordered pair, the centre of the first
\* declared torsion group
CentreOfFirstGroup(ix) ==
    {ix[2], ix[3]} = {TheRecord.dihedrals[1][2], TheRecord.dihedrals[1][3]}

SiteAdded(ix) == <<"ProperTorsions", ix>> \in added

\* C5: on a scan record, a torsion site with the scanned centre whose three
\* bonds are all ring bonds is left out of the output when its identifier is
\* not in the exception list and is in the output when it is; a site with the
\* scanned centre that is not fully in a ring is in the output either way.
\* The output holds a tuple for an identifier exactly when a site of that
\* identifier was not left out.
C5_RingExclusion ==
    (LabelledTorsions /\ IsTorsiondrive(TheRecord)) =>
        /\ \A ix \in DOMAIN TheTorsions :
              CentreOfFirstGroup(ix) =>
                /\ (AllRingBonds(ix) /\ TheTorsions[ix] \notin ring_torsions)
                      => ~SiteAdded(ix)
                /\ (AllRingBonds(ix) /\ TheTorsions[ix] \in ring_torsions)
                      => /\ SiteAdded(ix)
                         /\ <<TheTorsions[ix], TheRecord.id, TheHeavy>> \in parameter_ids
                /\ ~AllRingBonds(ix)
                      => /\ SiteAdded(ix)
                         /\ <<TheTorsions[ix], TheRecord.id, TheHeavy>> \in parameter_ids
        /\ \A p \in TorsionPids :
              (\E t \in parameter_ids : t[1] = p)
                 <=> (\E ix \in DOMAIN TheTorsions : TheTorsions[ix] = p /\ SiteAdded(ix))

\* a scan record with two all-ring sites of the scanned centre: the one whose
\* identifier is exempt is in the output, the other is not
C5_Witness ==
    /\ LabelledTorsions
    /\ TheRecord.dihedrals = <<D1>>
    /\ ring_torsions = {"t1"}
    /\ SiteA \in DOMAIN TheTorsions /\ TheTorsions[SiteA] = "t2"
    /\ SiteB \in DOMAIN TheTorsions /\ TheTorsions[SiteB] = "t1"
    /\ AllRingBonds(SiteA) /\ AllRingBonds(SiteB)
    /\ parameter_ids = {<<"t1", 1, TheHeavy>>}

\* C6: on a scan record the labeler emits a tuple for a torsion site only if
\* the site's atoms at positions 1 and 2 are, as an unordered pair, those of
\* the first declared torsion group: centre (4,5) is rejected for a scan of
\* centre (2,3), the reversed centre (3,2) is accepted, and a site matching
\* only the second declared group is rejected.
C6_CentreMatch ==
    (LabelledTorsions /\ IsTorsiondrive(TheRecord)) =>
        /\ \A ix \in DOMAIN TheTorsions : SiteAdded(ix) => CentreOfFirstGroup(ix)
        /\ \A t \in parameter_ids :
              \E ix \in DOMAIN TheTorsions :
                  TheTorsions[ix] = t[1] /\ CentreOfFirstGroup(ix)
        /\ TheRecord.dihedrals[1] = D1 =>
              /\ ~SiteAdded(SiteC)
              /\ (SiteB \in DOMAIN TheTorsions /\ ~AllRingBonds(SiteB)) => SiteAdded(SiteB)
              /\ (SiteB \in DOMAIN TheTorsions /\ TheTorsions[SiteB] \in ring_torsions)
                    => SiteAdded(SiteB)

\* a scan declaring the groups (1,2,3,6) and (1,4,5,6): the site (1,4,5,6) is
\* rejected, the site (6,3,2,1) is the only one emitted
C6_Witness ==
    /\ LabelledTorsions
    /\ TheRecord.dihedrals = <<D1, D2>>
    /\ DOMAIN TheTorsions = {SiteB, SiteC}
    /\ TheTorsions[SiteB] = "t2" /\ TheTorsions[SiteC] = "t1"
    /\ added = {<<"ProperTorsions", SiteB>>}
    /\ parameter_ids = {<<"t2", 1, TheHeavy>>}

(***************************************************************************)
(* Properties of the ring check and of the filters by record kind and      *)
(* parameter type (SpecLabel).                                             *)
(***************************************************************************)
\* the pairs (i,j), (j,k), (k,l) of a torsion
BondPairs(ix) == {<<ix[1], ix[2]>>, <<ix[2], ix[3]>>, <<ix[3], ix[4]>>}

Bonded(i, j) == {i, j} \in DOMAIN TheMolecule.bonds

\* C11: check_torsion_is_in_ring is true exactly when each of the pairs
\* (i,j), (j,k), (k,l) is bonded and its bond is a ring bond; safe_ring_bond
\* is false for a pair with no bond, and the labeler that calls the check on
\* the torsion sites of a molecule with missing bonds returns without error.
C11_InRingIffThreeRingBonds ==
    /\ \A ix \in TorsionSites :
          /\ CheckTorsionIsInRing(TheMolecule, ix)
                <=> \A b \in BondPairs(ix) :
                        Bonded(b[1], b[2]) /\ TheMolecule.bonds[{b[1], b[2]}]
          /\ \A b \in BondPairs(ix) :
                /\ ~Bonded(b[1], b[2]) => ~SafeRingBond(TheMolecule, b[1], b[2])
                /\ Bonded(b[1], b[2]) =>
                      SafeRingBond(TheMolecule, b[1], b[2])
                         = TheMolecule.bonds[{b[1], b[2]}]
    /\ (pc = "label" /\ parameter_types = <<"ProperTorsions">>) =>
          /\ status = "ok"
          /\ \A ix \in DOMAIN TheTorsions :
                (/\ IsTorsiondrive(TheRecord)
                 /\ CentreOfFirstGroup(ix)
                 /\ TheTorsions[ix] \notin ring_torsions
                 /\ \E b \in BondPairs(ix) : ~Bonded(b[1], b[2]))
                    => SiteAdded(ix)

\* a scanned torsion with ring bonds (1,2) and (2,3) and no bond between 3
\* and 6: the check is false, nothing is raised and the site is emitted
C11_Witness ==
    /\ LabelledTorsions
    /\ TheRecord.dihedrals = <<D1>>
    /\ SiteA \in DOMAIN TheTorsions /\ TheTorsions[SiteA] = "t2"
    /\ "t2" \notin ring_torsions
    /\ Bonded(1, 2) /\ TheMolecule.bonds[{1, 2}]
    /\ Bonded(2, 3) /\ TheMolecule.bonds[{2, 3}]
    /\ ~Bonded(3, 6)
    /\ ~CheckTorsionIsInRing(TheMolecule, SiteA)
    /\ SiteAdded(SiteA)
    /\ <<"t2", 1, TheHeavy>> \in parameter_ids

\* every site the force field labels for the requested types is emitted
AllSitesEmitted ==
    /\ status = "ok"
    /\ \A t \in ToSet(parameter_types) :
          \A ix \in DOMAIN records[1].mol_labels[t] :
              /\ <<t, ix>> \in added
              /\ <<records[1].mol_labels[t][ix], TheRecord.id, TheHeavy>> \in parameter_ids

\* C12: the centre and ring filters act only on the torsion sites of a scan
\* record: for a point record under any parameter types, and for a scan
\* record under bond or angle types, no site is discarded and nothing is
\* raised, so every identifier of a site is in the output with the record id.
C12_FiltersOnlyTorsionsOnScans ==
    (/\ pc = "label"
     /\ \/ ~IsTorsiondrive(TheRecord)
        \/ ToSet(parameter_types) \subseteq {"Bonds", "Angles"})
        => AllSitesEmitted

\* the part of C12 about point records: none of their sites is discarded
C12_PointRecordsUnfiltered ==
    (pc = "label" /\ ~IsTorsiondrive(TheRecord)) => AllSitesEmitted

(***************************************************************************)
(* Properties of the selection and of the aggregation (SpecSelect).        *)
(***************************************************************************)
Listed(type) ==
    IF type \in DOMAIN selected_parameters THEN selected_parameters[type] ELSE <<>>

Cov(c, p) == IF p \in DOMAIN c THEN c[p] ELSE 0

\* C7: select_parameters lists for type T the pattern of identifier P exactly
\* when coverage(P) >= min_coverage and the handler of T has a rule with id P;
\* the others are dropped without an error.  With min_coverage 5 a coverage
\* of 5 is selected and a coverage of 4 is not.
C7_SelectedIff ==
    /\ (pc = "select" /\ status = "ok") =>
          /\ DOMAIN selected_parameters \subseteq ToSet(parameter_types)
          /\ \A type \in ToSet(parameter_types) :
                /\ \A p \in AllPids :
                      (Smirks[p] \in ToSet(Listed(type)))
                         <=> /\ Cov(coverage, p) >= min_coverage
                             /\ p \in Handlers[type]
                /\ Cardinality(ToSet(Listed(type))) = Len(Listed(type))
    /\ (pc = "select" /\ \A i \in DOMAIN records : ~IsTorsiondrive(records[i].record))
          => status = "ok"
    /\ SelectedParameters(<<"ProperTorsions">>, [t1 |-> 5, t2 |-> 4], <<"t1", "t2">>,
                          DefaultMinCoverage)
          = [ProperTorsions |-> <<Smirks["t1"]>>]

\* min_coverage 2 over torsions and bonds: t1 and b1 are covered by two
\* records and listed, t2 is covered by one record and dropped, b2 has a rule
\* and no coverage, and no bond is listed for the torsions nor a torsion for
\* the bonds
C7_Witness ==
    /\ pc = "select" /\ status = "ok"
    /\ parameter_types = <<"ProperTorsions", "Bonds">>
    /\ min_coverage = 2
    /\ Cov(coverage, "t1") = 2 /\ Cov(coverage, "t2") = 1 /\ Cov(coverage, "b1") = 2
    /\ Listed("ProperTorsions") = <<Smirks["t1"]>>
    /\ Listed("Bonds") = <<Smirks["b1"]>>

\* the elements of s at the positions in A, in order
SubSeqAt(s, A) == [i \in 1..Cardinality(A) |->
                      s[CHOOSE k \in A : Cardinality({j \in A : j < k}) = i - 1]]

\* C10: for every split of the dataset into two parts, the coverage of every
\* identifier over the whole is the sum of its coverages over the parts; the
\* order in which the records are yielded does not change it.
C10_CoverageAdditive ==
    (pc = "dist" /\ status = "ok") =>
        LET ids == ToRecords(entries)
            whole == 1..Len(ids)
        IN  /\ \A A \in {X \in SUBSET whole : X = {} \/ 1 \in X} :
                  \A da \in {GetParameterDistribution(records, SubSeqAt(ids, A),
                                 parameter_types, ring_torsions)} :
                  \A db \in {GetParameterDistribution(records, SubSeqAt(ids, whole \ A),
                                 parameter_types, ring_torsions)} :
                      \A p \in AllPids :
                          Cov(coverage, p) = Cov(da.coverage, p) + Cov(db.coverage, p)
            /\ \A perm \in Orderings(ToSet(ids)) :
                  GetParameterDistribution(records, perm, parameter_types,
                                           ring_torsions).coverage = coverage

\* three records, all supporting t1 and one of them t2 as well
C10_Witness ==
    /\ pc = "dist" /\ status = "ok"
    /\ Len(ToRecords(entries)) = 3
    /\ Cov(coverage, "t1") = 3
    /\ Cov(coverage, "t2") = 1

(***************************************************************************)
(* Properties of the aggregation over the sites of a record (SpecSelect).  *)
(***************************************************************************)
Yielded == ToRecords(entries)

\* the sites of record id that label_and_tag_ids does not discard
Surviving(id) == LabelAndTagIds(records[id], parameter_types, ring_torsions).added

\* those of them that are assigned the identifier p
SurvivingFor(id, p) ==
    {s \in Surviving(id) : records[id].mol_labels[s[1]][s[2]] = p}

\* the positions of the records yielded that have a surviving site of p
Supporting(p) == {i \in 1..Len(Yielded) : SurvivingFor(Yielded[i], p) # {}}

IndexOf(p) == IF p \in DOMAIN parameter_records THEN parameter_records[p] ELSE <<>>

\* C13: a record adds exactly 1 to the coverage of an identifier and exactly
\* one (heavy-atom count, record id) entry to its index entry when at least
\* one of its surviving sites is assigned the identifier, however many are:
\* the coverage is the number of such records and the index entry lists them
\* once each, in the order yielded.
C13_SitesCollapse ==
    (pc = "dist" /\ status = "ok") =>
        \A p \in AllPids :
            /\ Cov(coverage, p) = Cardinality(Supporting(p))
            /\ IndexOf(p) =
                  [k \in 1..Cardinality(Supporting(p)) |->
                      LET id == SubSeqAt(Yielded, Supporting(p))[k]
                      IN  <<CountHeavy(records[id].molecule.atoms), id>>]

\* two torsion drives: the first has two surviving sites of t1, the second
\* one; t1 has coverage 2 and an index entry of two
C13_Witness ==
    /\ pc = "dist" /\ status = "ok"
    /\ parameter_types = <<"ProperTorsions">>
    /\ Yielded = <<1, 2>>
    /\ IsTorsiondrive(records[1].record)
    /\ SurvivingFor(1, "t1") = {<<"ProperTorsions", SiteA>>, <<"ProperTorsions", SiteB>>}
    /\ Cardinality(SurvivingFor(2, "t1")) = 1
    /\ coverage = [t1 |-> 2]
    /\ parameter_records = [t1 |-> <<<<7, 1>>, <<4, 2>>>>]

\* the number of entries of the index entry of p that name record id
Occurrences(p, id) ==
    Cardinality({k \in 1..Len(IndexOf(p)) : IndexOf(p)[k][2] = id})

\* the (record, site) assignments of p over the records yielded
Assignments(p) ==
    UNION {{<<i, s>> : s \in SurvivingFor(Yielded[i], p)} : i \in 1..Len(Yielded)}

\* C14 as stated: the index entry of an identifier names a record once per
\* surviving site of the record assigned the identifier, and the coverage is
\* the number of (record, site) assignments of the identifier.
C14_IndexPerSite ==
    (pc = "dist" /\ status = "ok") =>
        \A p \in AllPids :
            /\ \A i \in 1..Len(Yielded) :
                  Occurrences(p, Yielded[i]) = Cardinality(SurvivingFor(Yielded[i], p))
            /\ Cov(coverage, p) = Cardinality(Assignments(p))

\* C14 amended: the index entry of an identifier names a record once when
\* the record has a surviving site assigned the identifier, whether one or
\* several, and not at all when it has none; the coverage is the number of
\* distinct records the entry names.
C14_IndexPerRecord ==
    (pc = "dist" /\ status = "ok") =>
        \A p \in AllPids :
            /\ \A i \in 1..Len(Yielded) :
                  Occurrences(p, Yielded[i]) =
                      IF SurvivingFor(Yielded[i], p) = {} THEN 0 ELSE 1
            /\ Cov(coverage, p) =
                  Cardinality({IndexOf(p)[k][2] : k \in 1..Len(IndexOf(p))})

\* three point records under the bond and angle types, each with two bond
\* sites of b1 and two angle sites of a1: six assignments of b1, coverage 3,
\* every record once in the index entry
C14_Witness ==
    /\ pc = "dist" /\ status = "ok"
    /\ parameter_types = <<"Bonds", "Angles">>
    /\ Len(Yielded) = 3
    /\ \A i \in 1..3 : ~IsTorsiondrive(records[i].record)
    /\ Cardinality(Assignments("b1")) = 6
    /\ coverage = [b1 |-> 3, a1 |-> 3]
    /\ UnzipRecords(IndexOf("b1")) = <<1, 2, 3>>

\* C15: after get_parameter_distribution the coverage map and the index have
\* the same keys, the coverage of an identifier is the length of its index
\* entry (so more than cap_size entries whenever the coverage exceeds
\* cap_size, for every cap_size), and every record id in the index is the id
\* of a record the dataset yielded.
C15_CoverageMatchesIndex ==
    (pc = "dist" /\ status = "ok") =>
        /\ DOMAIN coverage = DOMAIN parameter_records
        /\ \A p \in DOMAIN coverage :
              /\ coverage[p] = Len(parameter_records[p])
              /\ \A c \in CapSizes :
                    coverage[p] > c => Len(parameter_records[p]) >= c + 1
              /\ \A k \in 1..Len(parameter_records[p]) :
                    /\ parameter_records[p][k][2] \in ToSet(Yielded)
                    /\ parameter_records[p][k][1] =
                          CountHeavy(records[parameter_records[p][k][2]].molecule.atoms)

\* three torsion drives of which the second has only an in-ring site that is
\* not exempt: t1 is the only key, with coverage 2 and the entries of the
\* records 1 and 3
C15_Witness ==
    /\ pc = "dist" /\ status = "ok"
    /\ Len(Yielded) = 3
    /\ Surviving(2) = {}
    /\ DOMAIN coverage = {"t1"} /\ DOMAIN parameter_records = {"t1"}
    /\ coverage["t1"] = 2 /\ coverage["t1"] > cap_size
    /\ UnzipRecords(parameter_records["t1"]) = <<1, 3>>

(***************************************************************************)
(* The three operations on one torsion-drive dataset, in any order.        *)
(***************************************************************************)
FrameCapSizes == {1, 2}
FrameMinCoverages == {2}

\* the molecules of these datasets: those without a site in a ring
FrameMolecules == {m \in ScanMolecules : m[2] = PlainChain}

InitFrame ==
    /\ \E n \in 0..MaxRecords :
          /\ \E ms \in [1..n -> FrameMolecules] :
                records = [i \in 1..n |-> MkScan(i, ms[i])]
          /\ entries \in EntryLayouts(n)
    /\ ring_torsions = {}
    /\ cap_size \in FrameCapSizes
    /\ method \in {"pick_heavy", "pick_light"}
    /\ parameter_types = <<"ProperTorsions">>
    /\ min_coverage = DefaultMinCoverage
    /\ NoResults

NextFrame ==
    \/ CapTorsionsPerParameter
    \/ Distribution
    \/ \E minc \in FrameMinCoverages : SelectParameters(minc)

SpecFrame == InitFrame /\ [][NextFrame]_vars

(***************************************************************************)
(* Properties of the effect on the dataset (SpecFrame).                    *)
(***************************************************************************)
\* a is b with some of its elements left out
IsSubsequence(a, b) == \E A \in SUBSET (1..Len(b)) : SubSeqAt(b, A) = a

\* C16: cap_torsions_per_parameter changes at most the entry list of the
\* first key, from which it only leaves records out: the lists of the other
\* keys and the set of keys stay as they were, no record is added, the
\* records left keep their relative order, and a call that raises changes
\* nothing; get_parameter_distribution and select_parameters leave the
\* dataset as it was.  No operation changes a record.
C16_DatasetFrame ==
    [][/\ records' = records
       /\ pc' \in {"dist", "select"} => entries' = entries
       /\ pc' = "cap" =>
             /\ Len(entries') = Len(entries)
             /\ \A k \in 2..Len(entries) : entries'[k] = entries[k]
             /\ Len(entries) > 0 => IsSubsequence(entries'[1], entries[1])
             /\ ToSet(ToRecords(entries')) \subseteq ToSet(ToRecords(entries))
             /\ status' = "error" => entries' = entries]_vars

\* after a selection, pick_heavy with cap_size 2 on the records 1, 2 under
\* the first key and 3 under the second: record 2 is the heaviest and comes
\* first in ids_to_keep, record 3 is not retained; the first list is still
\* 1, 2 and the second list still holds 3
C16_Witness ==
    /\ Capped
    /\ method = "pick_heavy" /\ cap_size = 2
    /\ selected_parameters # <<>>
    /\ source_entries = <<<<<<1, 2>>, <<3>>>>>>
    /\ ids_to_keep = <<2, 1>>
    /\ entries = <<<<1, 2>>, <<3>>>>

====
